---- MODULE Spec2Model ----
(***************************************************************************)
(* Model of the edge-api update pipeline: the HTTP handlers of             *)
(* pkg/updates (Add, Update), the RepoBuilder task each Add starts, the    *)
(* helpers it calls (DownloadExtractVersionRepo, RepoPullLocalStaticDeltas,*)
(* RepoRevParse) and the configuration that selects the uploader.          *)
(*                                                                         *)
(* The file system, the process-wide current directory and the database    *)
(* are shared by all tasks; every call to the operating system, the        *)
(* network, the ostree tool or the database is one atomic step of the task *)
(* that makes it, so that the tasks interleave between any two calls.      *)
(***************************************************************************)
EXTENDS Integers, Sequences, FiniteSets, TLC

\* Number of Add requests served (each starts one RepoBuilder task).
MaxTasks == 2
\* Longest OldCommits list a request body carries.
MaxOld == 2
\* Number of external calls that fail for reasons outside the model
\* (network, disk, database); failures forced by the model's file system
\* (a missing directory, a missing file) are not counted.
MaxFailures == 1
\* Number of PUT requests served.
MaxPuts == 1

Tasks == 1..MaxTasks

\* ---------------------------------------------------------------------
\* Data: commits, records, paths
\* ---------------------------------------------------------------------

\* A commit is named by its OSTreeCommit hash.
UpdateCommitPool == {"c0"}
OldCommitPool == {"c1", "c2"}

RECURSIVE SeqsUpTo(_, _)
SeqsUpTo(S, n) ==
  IF n = 0 THEN {<<>>}
  ELSE LET shorter == SeqsUpTo(S, n - 1)
       IN  shorter \cup {Append(s, x) : s \in {q \in shorter : Len(q) = n - 1}, x \in S}

\* The OldCommits lists a body may carry: every list over the pool up to MaxOld.
OldCommitsChoices == SeqsUpTo(OldCommitPool, MaxOld)

Accounts == {"a1", "a2"}

States == {"PENDING", "BUILDING", "SUCCESS", "ERROR"}

\* The State values a request body carries ("" when the field is omitted).
BodyStates == {"", "PENDING"}

\* type UpdateRecord; ID = 0 is gorm's "no primary key yet".
NoRecord == [ID |-> 0, Account |-> "", UpdateCommit |-> "", OldCommits |-> <<>>, State |-> ""]

\* commit.OSTreeRef, commit.ImageBuildHash: attributes of a commit.
OSTreeRef(c) == "ref-" \o c
ImageBuildHash(c) == "img-" \o c

\* filepath.Join on paths kept as sequences of segments.
Join(p, q) == p \o q

IsPrefix(p, q) == Len(p) <= Len(q) /\ SubSeq(q, 1, Len(p)) = p

\* os.MkdirAll: the directory and all its parents exist afterwards.
MkdirAll(d, p) == d \cup {SubSeq(p, 1, k) : k \in 1..Len(p)}

\* os.RemoveAll: the path and everything below it is gone afterwards.
RemoveAll(s, p) == {x \in s : ~IsPrefix(p, x)}

\* filepath.Join("/tmp/update/", strconv.FormatUint(uint64(ur.ID), 10))
WorkPath(id) == <<"tmp", "update", ToString(id)>>

\* filepath.Join(path, "staging")
StagePath(id) == Join(WorkPath(id), <<"staging">>)

\* strings.Join([]string{commit.ImageBuildHash, "tar"}, ".")
TarFileName(c) == ImageBuildHash(c) \o ".tar"

\* The revision `ostree rev-parse` prints for a commit's ref.
Rev(c) == "rev-" \o c

\* ---------------------------------------------------------------------
\* Configuration (package config)
\* ---------------------------------------------------------------------

DefaultBucket == "rh-edge-tarballs"

\* What the environment sets EdgeTarballsBucket to ("" = unset).
EnvBucketChoices == {"", "my-bucket"}

\* clowder.ObjectBuckets: requested name per configured bucket; a bucket
\* that is not in the map reads as the zero value, whose RequestedName is "".
ObjectBucketsChoices ==
  { [b \in {DefaultBucket, "my-bucket"} |-> ""],
    [b \in {DefaultBucket, "my-bucket"} |-> IF b = DefaultBucket THEN "edge-req" ELSE ""] }

\* config.Init: the BucketName of the EdgeConfig it builds.
ConfigInit(env, clowderEnabled, objectBuckets) ==
  LET fromEnv == IF env = "" THEN DefaultBucket ELSE env
  IN  [BucketName |-> IF clowderEnabled THEN objectBuckets[fromEnv] ELSE fromEnv]

VARIABLES
  config,          \* config.Get()
  db,              \* the update_records table: ID -> record (ID = 0: no row)
  cwd,             \* the process-wide current directory
  dirs,            \* directories that exist
  files,           \* regular files that exist
  pc,              \* per task: position in Add / RepoBuilder
  ur,              \* per task: the in-memory *UpdateRecord
  idx,             \* per task: 0 = UpdateCommit, k = OldCommits[k]
  updateRevParse,  \* per task: local of RepoPullLocalStaticDeltas
  oldRevParse,     \* per task: local of RepoPullLocalStaticDeltas
  result,          \* per task: what RepoBuilder returned
  response,        \* per task: what Add wrote to its ResponseWriter
  log,             \* per task: the external calls made, with their outcome
  nfail,           \* external failures injected so far
  nput,            \* PUT requests served so far
  proxy            \* the last request ServeRepo served, and what it resolved

vars == <<config, db, cwd, dirs, files, pc, ur, idx, updateRevParse, oldRevParse,
          result, response, log, nfail, nput, proxy>>

NoPath == <<>>

\* No request has reached a repository server yet.
NoRequest ==
  [server |-> "none", api |-> <<>>, name |-> <<>>, rest |-> <<>>, account |-> "",
   path |-> <<>>, status |-> 0, prefix |-> <<>>, rel |-> <<>>, resolved |-> <<>>]

Ev(op, p, q, ok) == [op |-> op, p |-> p, q |-> q, ok |-> ok]

\* The state after process start with `failed` external failures spent:
\* config.Init has run, the table is empty, no request has been served.
InitWith(failed) ==
  /\ \E env \in EnvBucketChoices, ce \in BOOLEAN, ob \in ObjectBucketsChoices :
       config = ConfigInit(env, ce, ob)
  /\ db = [i \in Tasks |-> NoRecord]
  /\ cwd = <<>>
  /\ dirs = {<<"tmp">>}
  /\ files = {}
  /\ pc = [t \in Tasks |-> "idle"]
  /\ ur = [t \in Tasks |-> NoRecord]
  /\ idx = [t \in Tasks |-> 0]
  /\ updateRevParse = [t \in Tasks |-> ""]
  /\ oldRevParse = [t \in Tasks |-> ""]
  /\ result = [t \in Tasks |-> "none"]
  /\ response = [t \in Tasks |-> [status |-> 0, body |-> NoRecord]]
  /\ log = [t \in Tasks |-> <<>>]
  /\ nfail = failed
  /\ nput = 0
  /\ proxy = NoRequest

Init == InitWith(0)

\* ---------------------------------------------------------------------
\* External calls
\* ---------------------------------------------------------------------

\* The outcomes an external call can have for reasons outside the model.
Outcomes == IF nfail < MaxFailures THEN {TRUE, FALSE} ELSE {TRUE}

\* The outcomes of a call that can only succeed when `possible` holds in the
\* model's file system.
OutcomesIf(possible) == IF possible THEN Outcomes ELSE {FALSE}

Count(ok) == nfail' = IF ok THEN nfail ELSE nfail + 1

\* A failure the file system forces is not an injected one.
CountIf(possible, ok) == nfail' = IF possible /\ ~ok THEN nfail + 1 ELSE nfail

Logged(t, e) == log' = [log EXCEPT ![t] = Append(@, e)]

Goto(t, l) == pc' = [pc EXCEPT ![t] = l]

\* ---------------------------------------------------------------------
\* Request handlers
\* ---------------------------------------------------------------------

\* The request bodies updateFromReadCloser decodes for Add, with OldCommits
\* from `olds` and Account from `accounts`. A body may name the ID of a row
\* that exists already (gorm.Model.ID is a JSON field).
AddBodies(accounts, olds) ==
  { [ID |-> i, Account |-> a, UpdateCommit |-> u, OldCommits |-> o, State |-> s] :
      i \in {0} \cup {r \in Tasks : db[r].ID # 0},
      a \in accounts, u \in UpdateCommitPool, o \in olds, s \in BodyStates }

\* The primary key gorm assigns to a row inserted without one.
NextID(table) == CHOOSE i \in Tasks : table[i].ID = 0 /\ \A j \in 1..(i - 1) : table[j].ID # 0

\* db.DB.Create: the record as it is in memory afterwards. An insert with a
\* primary key that is taken fails and leaves the table and the record alone.
Created(table, rec) == IF rec.ID = 0 THEN [rec EXCEPT !.ID = NextID(table)] ELSE rec

Create(table, rec) ==
  IF rec.ID # 0 /\ table[rec.ID].ID # 0 THEN table
  ELSE [table EXCEPT ![Created(table, rec).ID] = Created(table, rec)]

\* The goroutine `go RepoBuilder(&update, &r)` starts at.
AddSpawn == "rb_start"

\* What Add writes to its ResponseWriter on the success path: nothing
\* (the implicit 200 with an empty body).
AddResponse(rec) == [status |-> 200, body |-> NoRecord]

\* func Add, the body decoded (one of `bodies`).
Add(t, bodies) ==
  /\ pc[t] = "idle"
  /\ \A s \in 1..(t - 1) : pc[s] # "idle"
  /\ \E body \in bodies :
       /\ db' = Create(db, body)
       /\ ur' = [ur EXCEPT ![t] = Created(db, body)]
  /\ response' = [response EXCEPT ![t] = AddResponse(ur'[t])]
  /\ Goto(t, AddSpawn)
  /\ UNCHANGED <<config, proxy, cwd, dirs, files, idx, updateRevParse, oldRevParse, result,
                 log, nfail, nput>>

\* func Add, the body malformed: 400 and nothing else.
AddBadRequest(t) ==
  /\ pc[t] = "idle"
  /\ \A s \in 1..(t - 1) : pc[s] # "idle"
  /\ response' = [response EXCEPT ![t] = [status |-> 400, body |-> NoRecord]]
  /\ Goto(t, "rejected")
  /\ UNCHANGED <<config, proxy, db, cwd, dirs, files, ur, idx, updateRevParse, oldRevParse,
                 result, log, nfail, nput>>

\* The request bodies decoded for PUT.
PutBodies ==
  { [ID |-> 0, Account |-> a, UpdateCommit |-> u, OldCommits |-> <<>>, State |-> s] :
      a \in Accounts, u \in UpdateCommitPool, s \in BodyStates }

\* The account that owns a record: the `account` column the queries of
\* UpdateCtx and GetAll filter on. UpdateRecord declares no such field; the
\* value travels in the decoded body (with the commit of package commits).
RecordAccount(rec) == rec.Account

\* UpdateCtx: db.DB.Where("account = ?", account).First(&update, id)
Lookup(table, account, id) ==
  IF table[id].ID # 0 /\ RecordAccount(table[id]) = account THEN table[id] ELSE NoRecord

\* GetByID: the record UpdateCtx put into the context, encoded as it is.
GetByID(table, account, id) == Lookup(table, account, id)

\* GetAll: db.DB.Where("account = ?", account).Find(&updates)
GetAll(table, account) ==
  {table[id] : id \in {i \in Tasks : table[i].ID # 0 /\ RecordAccount(table[i]) = account}}

\* db.DB.Save(&incoming) after incoming.ID = update.ID: the row is replaced
\* by the decoded body, State included.
Save(table, found, incoming) == [table EXCEPT ![found.ID] = [incoming EXCEPT !.ID = found.ID]]

\* UpdateCtx followed by func Update, for a request of `account` on /{id}.
Update(account, id) ==
  /\ nput < MaxPuts
  /\ Lookup(db, account, id) # NoRecord
  /\ \E incoming \in PutBodies : db' = Save(db, Lookup(db, account, id), incoming)
  /\ nput' = nput + 1
  /\ UNCHANGED <<config, proxy, cwd, dirs, files, pc, ur, idx, updateRevParse, oldRevParse,
                 result, response, log, nfail>>

\* ---------------------------------------------------------------------
\* RepoBuilder
\* ---------------------------------------------------------------------

\* A faulty variant of CurCommit: the loop walks OldCommits from its end.
CurCommit_Reversed(t) ==
  IF idx[t] = 0 THEN ur[t].UpdateCommit
  ELSE ur[t].OldCommits[Len(ur[t].OldCommits) - idx[t] + 1]

\* The commit and destination of the DownloadExtractVersionRepo call in progress.
CurCommit(t) == IF idx[t] = 0 THEN ur[t].UpdateCommit ELSE ur[t].OldCommits[idx[t]]

Dest(t) ==
  IF idx[t] = 0 THEN WorkPath(ur[t].ID)
  ELSE Join(StagePath(ur[t].ID), <<CurCommit(t)>>)

\* The arguments of the RepoPullLocalStaticDeltas call in progress.
UpRepo(t) == Join(WorkPath(ur[t].ID), <<"repo">>)
OldRepo(t) == Join(StagePath(ur[t].ID), <<CurCommit(t), "repo">>)

\* A faulty variant of PersistBuilding: a row that is BUILDING already is
\* left as the first writer saved it.
PersistBuilding_FirstWins(table, rec, ok) ==
  IF ok /\ table[rec.ID].ID # 0 /\ table[rec.ID].State # "BUILDING"
  THEN [table EXCEPT ![rec.ID] = rec] ELSE table

\* ur.State = "BUILDING"; db.DB.Update(&ur). The result of the write is not
\* looked at: the task goes on whether or not the row was written.
PersistBuilding(table, rec, ok) ==
  IF ok /\ table[rec.ID].ID # 0 THEN [table EXCEPT ![rec.ID] = rec] ELSE table

AfterPersist(ok) == "rb_mkdir"

RBStart(t) ==
  /\ pc[t] = "rb_start"
  /\ \E ok \in Outcomes :
       /\ Count(ok)
       /\ ur' = [ur EXCEPT ![t].State = "BUILDING"]
       /\ db' = PersistBuilding(db, ur'[t], ok)
       /\ Logged(t, Ev("persist", <<"BUILDING">>, NoPath, ok))
       /\ Goto(t, AfterPersist(ok))
  /\ UNCHANGED <<config, proxy, cwd, dirs, files, idx, updateRevParse, oldRevParse, result,
                 response, nput>>

\* `return err` / `return nil` of RepoBuilder. No write of the record follows.
Return(t, r) ==
  /\ result' = [result EXCEPT ![t] = r]
  /\ Goto(t, "done")

\* os.MkdirAll(path, 0755)
RBMkdir(t) ==
  /\ pc[t] = "rb_mkdir"
  /\ \E ok \in Outcomes :
       /\ Count(ok)
       /\ Logged(t, Ev("mkdir", WorkPath(ur[t].ID), NoPath, ok))
       /\ IF ok
          THEN /\ dirs' = MkdirAll(dirs, WorkPath(ur[t].ID))
               /\ Goto(t, "rb_chdir")
               /\ UNCHANGED result
          ELSE /\ Return(t, "err")
               /\ UNCHANGED dirs
  /\ UNCHANGED <<config, proxy, db, cwd, files, ur, idx, updateRevParse, oldRevParse,
                 response, nput>>

\* os.Chdir(path)
RBChdir(t) ==
  /\ pc[t] = "rb_chdir"
  /\ \E ok \in OutcomesIf(WorkPath(ur[t].ID) \in dirs) :
       /\ CountIf(WorkPath(ur[t].ID) \in dirs, ok)
       /\ Logged(t, Ev("chdir", WorkPath(ur[t].ID), NoPath, ok))
       /\ IF ok
          THEN /\ cwd' = WorkPath(ur[t].ID)
               /\ idx' = [idx EXCEPT ![t] = 0]
               /\ Goto(t, "dl_mkdir")
               /\ UNCHANGED result
          ELSE /\ Return(t, "err")
               /\ UNCHANGED <<cwd, idx>>
  /\ UNCHANGED <<config, proxy, db, dirs, files, ur, updateRevParse, oldRevParse,
                 response, nput>>

\* ---------------------------------------------------------------------
\* DownloadExtractVersionRepo(c, dest), called for CurCommit(t) and Dest(t)
\* ---------------------------------------------------------------------

\* A faulty variant of AfterDownload: the merge follows every
\* materialization, the update commit's included.
AfterDownload_AlwaysMerge(t, err) == "pl_chdir"

\* Where RepoBuilder goes on when DownloadExtractVersionRepo returns. Its
\* result is dropped at both call sites, so an error and nil go on alike.
AfterDownload(t, err) ==
  IF idx[t] # 0 THEN "pl_chdir"
  ELSE IF Len(ur[t].OldCommits) > 0 THEN "st_mkdir" ELSE "rb_remove"

\* A step of DownloadExtractVersionRepo: on success on to `next`, on failure
\* `return err`.
DLStep(t, ok, next) == Goto(t, IF ok THEN next ELSE AfterDownload(t, TRUE))

TarPath(t) == Join(Dest(t), <<TarFileName(CurCommit(t))>>)

\* os.MkdirAll(dest, 0755)
DLMkdir(t) ==
  /\ pc[t] = "dl_mkdir"
  /\ \E ok \in Outcomes :
       /\ Count(ok)
       /\ Logged(t, Ev("materialize", Dest(t), <<CurCommit(t)>>, ok))
       /\ dirs' = IF ok THEN MkdirAll(dirs, Dest(t)) ELSE dirs
       /\ DLStep(t, ok, "dl_chdir")
  /\ UNCHANGED <<config, proxy, db, cwd, files, ur, idx, updateRevParse, oldRevParse,
                 result, response, nput>>

\* os.Chdir(dest)
DLChdir(t) ==
  /\ pc[t] = "dl_chdir"
  /\ \E ok \in OutcomesIf(Dest(t) \in dirs) :
       /\ CountIf(Dest(t) \in dirs, ok)
       /\ Logged(t, Ev("chdir-dest", Dest(t), NoPath, ok))
       /\ cwd' = IF ok THEN Dest(t) ELSE cwd
       /\ DLStep(t, ok, "dl_get")
  /\ UNCHANGED <<config, proxy, db, dirs, files, ur, idx, updateRevParse, oldRevParse,
                 result, response, nput>>

\* grab.Get(filepath.Join(dest, tarFileName), commit.ImageBuildTarURL)
DLGet(t) ==
  /\ pc[t] = "dl_get"
  /\ \E ok \in OutcomesIf(Dest(t) \in dirs) :
       /\ CountIf(Dest(t) \in dirs, ok)
       /\ Logged(t, Ev("download", TarPath(t), <<CurCommit(t)>>, ok))
       /\ files' = IF ok THEN files \cup {TarPath(t)} ELSE files
       /\ DLStep(t, ok, "dl_open")
  /\ UNCHANGED <<config, proxy, db, cwd, dirs, ur, idx, updateRevParse, oldRevParse,
                 result, response, nput>>

\* os.Open(filepath.Join(dest, tarFileName))
DLOpen(t) ==
  /\ pc[t] = "dl_open"
  /\ \E ok \in OutcomesIf(TarPath(t) \in files) :
       /\ CountIf(TarPath(t) \in files, ok)
       /\ Logged(t, Ev("open", TarPath(t), NoPath, ok))
       /\ DLStep(t, ok, "dl_untar")
  /\ UNCHANGED <<config, proxy, db, cwd, dirs, files, ur, idx, updateRevParse, oldRevParse,
                 result, response, nput>>

\* Where DownloadExtractVersionRepo goes on after common.Untar: the call's
\* result is not assigned, so the archive is removed next either way.
AfterUntar(ok) == "dl_remove"

\* common.Untar(tarFile, dest); tarFile.Close(). The archive carries the
\* tree of an ostree repository in the directory "repo".
DLUntar(t) ==
  /\ pc[t] = "dl_untar"
  /\ \E ok \in OutcomesIf(Dest(t) \in dirs) :
       /\ CountIf(Dest(t) \in dirs, ok)
       /\ Logged(t, Ev("untar", Dest(t), <<CurCommit(t)>>, ok))
       /\ dirs' = IF ok THEN dirs \cup {Join(Dest(t), <<"repo">>)} ELSE dirs
       /\ Goto(t, AfterUntar(ok))
  /\ UNCHANGED <<config, proxy, db, cwd, files, ur, idx, updateRevParse, oldRevParse,
                 result, response, nput>>

\* os.Remove(filepath.Join(dest, tarFileName))
DLRemove(t) ==
  /\ pc[t] = "dl_remove"
  /\ \E ok \in OutcomesIf(TarPath(t) \in files) :
       /\ CountIf(TarPath(t) \in files, ok)
       /\ Logged(t, Ev("remove", TarPath(t), NoPath, ok))
       /\ files' = IF ok THEN files \ {TarPath(t)} ELSE files
       /\ DLStep(t, ok, "dl_commit")
  /\ UNCHANGED <<config, proxy, db, cwd, dirs, ur, idx, updateRevParse, oldRevParse,
                 result, response, nput>>

\* The repository `ostree --repo ./repo` operates on: "./repo" is resolved
\* against the current directory of the process when the command runs.
CommitRepo(t) == Join(cwd, <<"repo">>)

\* exec.Command("ostree", "--repo", "./repo", "commit", c.OSTreeRef, ...).Run()
DLCommit(t) ==
  /\ pc[t] = "dl_commit"
  /\ \E ok \in OutcomesIf(CommitRepo(t) \in dirs) :
       /\ CountIf(CommitRepo(t) \in dirs, ok)
       /\ Logged(t, Ev("commit", CommitRepo(t), <<OSTreeRef(CurCommit(t))>>, ok))
       /\ Goto(t, AfterDownload(t, ~ok))
  /\ UNCHANGED <<config, proxy, db, cwd, dirs, files, ur, idx, updateRevParse, oldRevParse,
                 result, response, nput>>

\* ---------------------------------------------------------------------
\* RepoBuilder: staging and the loop over OldCommits
\* ---------------------------------------------------------------------

\* os.MkdirAll(stagePath, 0755)
StageMkdir(t) ==
  /\ pc[t] = "st_mkdir"
  /\ \E ok \in Outcomes :
       /\ Count(ok)
       /\ Logged(t, Ev("mkdir", StagePath(ur[t].ID), NoPath, ok))
       /\ IF ok
          THEN /\ dirs' = MkdirAll(dirs, StagePath(ur[t].ID))
               /\ Goto(t, "st_chdir")
               /\ UNCHANGED result
          ELSE /\ Return(t, "err")
               /\ UNCHANGED dirs
  /\ UNCHANGED <<config, proxy, db, cwd, files, ur, idx, updateRevParse, oldRevParse,
                 response, nput>>

\* os.Chdir(stagePath), then the first iteration of the loop
StageChdir(t) ==
  /\ pc[t] = "st_chdir"
  /\ \E ok \in OutcomesIf(StagePath(ur[t].ID) \in dirs) :
       /\ CountIf(StagePath(ur[t].ID) \in dirs, ok)
       /\ Logged(t, Ev("chdir", StagePath(ur[t].ID), NoPath, ok))
       /\ IF ok
          THEN /\ cwd' = StagePath(ur[t].ID)
               /\ idx' = [idx EXCEPT ![t] = 1]
               /\ Goto(t, "dl_mkdir")
               /\ UNCHANGED result
          ELSE /\ Return(t, "err")
               /\ UNCHANGED <<cwd, idx>>
  /\ UNCHANGED <<config, proxy, db, dirs, files, ur, updateRevParse, oldRevParse,
                 response, nput>>

\* ---------------------------------------------------------------------
\* RepoPullLocalStaticDeltas(u, o, uprepo, oldrepo), called for
\* ur.UpdateCommit, CurCommit(t), UpRepo(t) and OldRepo(t)
\* ---------------------------------------------------------------------

\* When RepoPullLocalStaticDeltas returns (its result is dropped): the next
\* old commit, or the end of the loop.
MergeReturn(t) ==
  IF idx[t] < Len(ur[t].OldCommits)
  THEN /\ idx' = [idx EXCEPT ![t] = @ + 1]
       /\ Goto(t, "dl_mkdir")
  ELSE /\ Goto(t, "rb_remove")
       /\ UNCHANGED idx

\* os.Chdir(dest). The function has no `dest`; the name is the one of
\* DownloadExtractVersionRepo, whose last call was for the directory of oldrepo.
PullDest(t) == Join(StagePath(ur[t].ID), <<CurCommit(t)>>)

PLChdir(t) ==
  /\ pc[t] = "pl_chdir"
  /\ \E ok \in OutcomesIf(PullDest(t) \in dirs) :
       /\ CountIf(PullDest(t) \in dirs, ok)
       /\ Logged(t, Ev("merge", UpRepo(t), OldRepo(t), ok))
       /\ cwd' = IF ok THEN PullDest(t) ELSE cwd
       /\ IF ok THEN Goto(t, "pl_rev_u") /\ UNCHANGED idx ELSE MergeReturn(t)
  /\ UNCHANGED <<config, proxy, db, dirs, files, ur, updateRevParse, oldRevParse,
                 result, response, nput>>

\* RepoRevParse(path, ref): the trimmed output, "" with an error.
RepoRevParse(c, ok) == IF ok THEN Rev(c) ELSE ""

\* Where RepoPullLocalStaticDeltas goes on after a RepoRevParse: the err it
\* returns is overwritten before anything reads it.
AfterRevParse(next, ok) == next

\* updateRevParse, err := RepoRevParse(uprepo, u.OSTreeRef)
PLRevParseUpdate(t) ==
  /\ pc[t] = "pl_rev_u"
  /\ \E ok \in OutcomesIf(UpRepo(t) \in dirs) :
       /\ CountIf(UpRepo(t) \in dirs, ok)
       /\ Logged(t, Ev("rev-parse", UpRepo(t), <<OSTreeRef(ur[t].UpdateCommit)>>, ok))
       /\ updateRevParse' = [updateRevParse EXCEPT ![t] = RepoRevParse(ur[t].UpdateCommit, ok)]
       /\ Goto(t, AfterRevParse("pl_rev_o", ok))
  /\ UNCHANGED <<config, proxy, db, cwd, dirs, files, ur, idx, oldRevParse,
                 result, response, nput>>

\* oldRevParse, err := RepoRevParse(oldrepo, o.OSTreeRef)
PLRevParseOld(t) ==
  /\ pc[t] = "pl_rev_o"
  /\ \E ok \in OutcomesIf(OldRepo(t) \in dirs) :
       /\ CountIf(OldRepo(t) \in dirs, ok)
       /\ Logged(t, Ev("rev-parse", OldRepo(t), <<OSTreeRef(CurCommit(t))>>, ok))
       /\ oldRevParse' = [oldRevParse EXCEPT ![t] = RepoRevParse(CurCommit(t), ok)]
       /\ Goto(t, AfterRevParse("pl_pull", ok))
  /\ UNCHANGED <<config, proxy, db, cwd, dirs, files, ur, idx, updateRevParse,
                 result, response, nput>>

\* `ostree pull-local` needs both repositories and a revision to pull.
CanPull(t) == UpRepo(t) \in dirs /\ OldRepo(t) \in dirs /\ oldRevParse[t] # ""

\* exec.Command("ostree", "--repo", uprepo, "pull-local", oldrepo, oldRevParse).Run()
PLPull(t) ==
  /\ pc[t] = "pl_pull"
  /\ \E ok \in OutcomesIf(CanPull(t)) :
       /\ CountIf(CanPull(t), ok)
       /\ Logged(t, Ev("pull-local", UpRepo(t), <<oldRevParse[t]>>, ok))
       /\ IF ok THEN Goto(t, "pl_delta") /\ UNCHANGED idx ELSE MergeReturn(t)
  /\ UNCHANGED <<config, proxy, db, cwd, dirs, files, ur, updateRevParse, oldRevParse,
                 result, response, nput>>

\* `ostree static-delta generate` needs the repository and the target revision.
CanDelta(t) == UpRepo(t) \in dirs /\ updateRevParse[t] # ""

\* exec.Command("ostree", "--repo", uprepo, "static-delta", "generate",
\*              "--from", oldRevParse, "--to", updateRevParse).Run()
PLDelta(t) ==
  /\ pc[t] = "pl_delta"
  /\ \E ok \in OutcomesIf(CanDelta(t)) :
       /\ CountIf(CanDelta(t), ok)
       /\ Logged(t, Ev("static-delta", UpRepo(t), <<oldRevParse[t], updateRevParse[t]>>, ok))
       /\ MergeReturn(t)
  /\ UNCHANGED <<config, proxy, db, cwd, dirs, files, ur, updateRevParse, oldRevParse,
                 result, response, nput>>

\* ---------------------------------------------------------------------
\* RepoBuilder: cleanup and upload
\* ---------------------------------------------------------------------

\* os.RemoveAll(stagePath)
RBRemove(t) ==
  /\ pc[t] = "rb_remove"
  /\ \E ok \in Outcomes :
       /\ Count(ok)
       /\ Logged(t, Ev("remove-all", StagePath(ur[t].ID), NoPath, ok))
       /\ IF ok
          THEN /\ dirs' = RemoveAll(dirs, StagePath(ur[t].ID))
               /\ files' = RemoveAll(files, StagePath(ur[t].ID))
               /\ Goto(t, "rb_upload")
               /\ UNCHANGED result
          ELSE /\ Return(t, "err")
               /\ UNCHANGED <<dirs, files>>
  /\ UNCHANGED <<config, proxy, db, cwd, ur, idx, updateRevParse, oldRevParse,
                 response, nput>>

\* A faulty variant of Uploader: the bucket name is never looked at.
Uploader_AlwaysFile(cfg) == "FileUploader"

\* The uploader RepoBuilder ends up with: the FileUploader, replaced by the
\* S3 uploader when cfg.BucketName != "".
Uploader(cfg) == IF cfg.BucketName # "" THEN "S3Uploader" ELSE "FileUploader"

\* What RepoBuilder returns after uploader.Upload: nil, whatever err is.
UploadResult(ok) == "nil"

\* uploader.Upload(filepath.Join(path, "repo"), &r); return nil
RBUpload(t) ==
  /\ pc[t] = "rb_upload"
  /\ \E ok \in OutcomesIf(UpRepo(t) \in dirs) :
       /\ CountIf(UpRepo(t) \in dirs, ok)
       /\ Logged(t, Ev("upload", UpRepo(t), <<Uploader(config)>>, ok))
       /\ Return(t, UploadResult(ok))
  /\ UNCHANGED <<config, proxy, db, cwd, dirs, files, ur, idx, updateRevParse, oldRevParse,
                 response, nput>>

\* ---------------------------------------------------------------------
\* The system
\* ---------------------------------------------------------------------

RepoBuilder(t) ==
  \/ RBStart(t) \/ RBMkdir(t) \/ RBChdir(t)
  \/ StageMkdir(t) \/ StageChdir(t)
  \/ RBRemove(t) \/ RBUpload(t)

DownloadExtractVersionRepo(t) ==
  \/ DLMkdir(t) \/ DLChdir(t) \/ DLGet(t) \/ DLOpen(t)
  \/ DLUntar(t) \/ DLRemove(t) \/ DLCommit(t)

RepoPullLocalStaticDeltas(t) ==
  \/ PLChdir(t) \/ PLRevParseUpdate(t) \/ PLRevParseOld(t)
  \/ PLPull(t) \/ PLDelta(t)

\* ---------------------------------------------------------------------
\* Repository servers (pkg/repo/server.go). Strings are sequences of
\* characters, so that strings.Index searches text, not segments.
\* ---------------------------------------------------------------------

\* Longest segment (API prefix, repository name, path in the repository) of
\* a request path.
MaxSeg == 2

Chars == {"a", "b"}

\* The non-empty words of at most MaxSeg characters.
Words == SeqsUpTo(Chars, MaxSeg) \ {<<>>}

Slash == <<"/">>

\* r.URL.Path of a request the router matched as /<api>/{name}/<rest>.
RequestPath(api, name, rest) == Slash \o api \o Slash \o name \o Slash \o rest

\* strings.Index(s, sub): the offset of the first occurrence, -1 if none.
Index(s, sub) ==
  LET hits == {i \in 0..(Len(s) - Len(sub)) : SubSeq(s, i + 1, i + Len(sub)) = sub}
  IN  IF hits = {} THEN -1 ELSE CHOOSE i \in hits : \A j \in hits : i <= j

\* getNameAndPrefix: r.URL.Path[:_r+len(name)] with _r = strings.Index(path, name);
\* an error when the route carries no name.
getNameAndPrefix(path, name) ==
  [err |-> name = <<>>,
   name |-> name,
   pathPrefix |-> IF name = <<>> THEN <<>> ELSE SubSeq(path, 1, Index(path, name) + Len(name))]

\* s[n:]
From(s, n) == SubSeq(s, n + 1, Len(s))

\* filepath.Clean on what the requests here produce: runs of slashes become
\* one slash and a trailing slash goes.
RECURSIVE Clean(_)
Clean(s) ==
  IF Len(s) <= 1 THEN s
  ELSE IF s[1] = "/" /\ s[2] = "/" THEN Clean(Tail(s))
  ELSE IF Len(s) = 2 /\ s[2] = "/" THEN <<s[1]>>
  ELSE <<s[1]>> \o Clean(Tail(s))

\* filepath.Join(a, b)
FilepathJoin(a, b) ==
  IF a = <<>> THEN Clean(b) ELSE IF b = <<>> THEN Clean(a) ELSE Clean(a \o Slash \o b)

\* S3Proxy.ServeRepo: the key of the object it gets,
\* filepath.Join(account, r.URL.Path[_r+len(pathPrefix):]) with
\* _r = strings.Index(r.URL.Path, pathPrefix).
S3Rel(path, name) ==
  LET pathPrefix == getNameAndPrefix(path, name).pathPrefix
  IN  From(path, Index(path, pathPrefix) + Len(pathPrefix))

S3Key(path, name, account) == FilepathJoin(<<account>>, S3Rel(path, name))

\* FileServer.ServeRepo: http.StripPrefix(pathPrefix, ...) leaves the rest of
\* the path, which http.Dir(filepath.Join(s.BasePath, name)) opens.
FileRel(path, name) ==
  LET pathPrefix == getNameAndPrefix(path, name).pathPrefix
  IN  IF IsPrefix(pathPrefix, path) THEN From(path, Len(pathPrefix)) ELSE <<>>

FileResolved(path, name) == FilepathJoin(FilepathJoin(<<"BasePath">>, name), FileRel(path, name))

\* The requests that reach a repository server; a route without a name
\* parameter reads as the empty name.
Names == Words \cup {<<>>}

\* The servers keep nothing between requests, so a behaviour serves one:
\* the request any later one would be is served from the initial state too.
Unserved == proxy.server = "none"

\* func (p *S3Proxy) ServeRepo, for a request of `account`; `found` is
\* whether GetObject finds the key.
S3ProxyServeRepo(api, name, rest, account, found) ==
  /\ Unserved
  /\ proxy' =
       LET path == RequestPath(api, name, rest)
           np == getNameAndPrefix(path, name)
       IN  IF np.err
           THEN [NoRequest EXCEPT !.server = "S3Proxy", !.api = api, !.name = name, !.rest = rest,
                                  !.account = account, !.path = path, !.status = 400]
           ELSE [server |-> "S3Proxy", api |-> api, name |-> name, rest |-> rest,
                 account |-> account, path |-> path,
                 status |-> IF found THEN 200 ELSE 500,
                 prefix |-> np.pathPrefix, rel |-> S3Rel(path, name),
                 resolved |-> S3Key(path, name, account)]
  /\ UNCHANGED <<config, db, cwd, dirs, files, pc, ur, idx, updateRevParse, oldRevParse,
                 result, response, log, nfail, nput>>

\* func (s *FileServer) ServeRepo
FileServerServeRepo(api, name, rest, account) ==
  /\ Unserved
  /\ proxy' =
       LET path == RequestPath(api, name, rest)
           np == getNameAndPrefix(path, name)
       IN  IF np.err
           THEN [NoRequest EXCEPT !.server = "FileServer", !.api = api, !.name = name, !.rest = rest,
                                  !.account = account, !.path = path, !.status = 400]
           ELSE [server |-> "FileServer", api |-> api, name |-> name, rest |-> rest,
                 account |-> account, path |-> path, status |-> 200,
                 prefix |-> np.pathPrefix, rel |-> FileRel(path, name),
                 resolved |-> FileResolved(path, name)]
  /\ UNCHANGED <<config, db, cwd, dirs, files, pc, ur, idx, updateRevParse, oldRevParse,
                 result, response, log, nfail, nput>>

\* One submission: a single Add (with every body), the task it starts, PUT
\* requests at any moment, and external calls that fail.
Next ==
  \/ Add(1, AddBodies(Accounts, OldCommitsChoices))
  \/ AddBadRequest(1)
  \/ \E a \in Accounts, id \in Tasks : Update(a, id)
  \/ RepoBuilder(1)
  \/ DownloadExtractVersionRepo(1)
  \/ RepoPullLocalStaticDeltas(1)

Spec == Init /\ [][Next]_vars

\* Concurrent submissions: MaxTasks Add requests whose tasks interleave at
\* every external call. The bodies carry at most one old commit and one
\* account, no PUT arrives, and no call fails for a reason outside the
\* model: what fails here fails because of what another task did.
ConcOldCommitsChoices == {<<>>, <<"c1">>}

ConcAccounts == {"a1"}

InitConc == InitWith(MaxFailures)

NextConc ==
  \/ \E t \in Tasks : Add(t, AddBodies(ConcAccounts, ConcOldCommitsChoices))
  \/ \E t \in Tasks : AddBadRequest(t)
  \/ \E t \in Tasks : RepoBuilder(t)
  \/ \E t \in Tasks : DownloadExtractVersionRepo(t)
  \/ \E t \in Tasks : RepoPullLocalStaticDeltas(t)

SpecConc == InitConc /\ [][NextConc]_vars

\* The repository servers alone: a request for every API prefix, name, path
\* in the repository and account.
NextProxy ==
  \/ \E api \in Words, name \in Names, rest \in Words, a \in Accounts, found \in BOOLEAN :
       S3ProxyServeRepo(api, name, rest, a, found)
  \/ \E api \in Words, name \in Names, rest \in Words, a \in Accounts :
       FileServerServeRepo(api, name, rest, a)

SpecProxy == Init /\ [][NextProxy]_vars

\* ---------------------------------------------------------------------
\* Reading the log
\* ---------------------------------------------------------------------

\* The tasks whose RepoBuilder has been started.
Started == {t \in Tasks : pc[t] \notin {"idle", "rejected"}}

\* The events of task t with an operation in ops, in order.
Events(t, ops) == SelectSeq(log[t], LAMBDA e : e.op \in ops)

\* Some event of task t with an operation in ops failed.
Failed(t, ops) == \E i \in 1..Len(log[t]) : log[t][i].op \in ops /\ ~log[t][i].ok

\* The steps of the stages of a build: materializing a commit, merging an
\* old commit, uploading. Removing the staging directory is not among them.
MaterializeOps == {"materialize", "chdir-dest", "download", "open", "untar", "remove", "commit"}
MergeOps == {"merge", "rev-parse", "pull-local", "static-delta"}
StageOps == MaterializeOps \cup MergeOps \cup {"upload"}

Terminal == {"SUCCESS", "ERROR"}

\* The persisted State of the record task t builds.
Persisted(t) == db[ur[t].ID].State

\* ---------------------------------------------------------------------
\* C1
\* ---------------------------------------------------------------------

\* C1: every RepoBuilder run persists a terminal state for its record: once
\* the run has returned (every external step having returned), the record's
\* State is SUCCESS or ERROR.
C1_ReturnedIsTerminal ==
  \A t \in Tasks : pc[t] = "done" => Persisted(t) \in Terminal

\* ---------------------------------------------------------------------
\* C2
\* ---------------------------------------------------------------------

Rank(s) == CASE s = "PENDING" -> 1 [] s = "BUILDING" -> 2 [] s \in Terminal -> 3 [] OTHER -> 0

\* C2: under Add, Update and RepoBuilder the persisted State of a record only
\* moves forward along PENDING -> BUILDING -> {SUCCESS, ERROR}: no step takes
\* a record from one of these states to an earlier one.
C2_StateForwardOnly ==
  [][\A id \in Tasks :
       (db[id].State \in States /\ db'[id].State \in States)
          => Rank(db'[id].State) >= Rank(db[id].State)]_vars

\* ---------------------------------------------------------------------
\* C3
\* ---------------------------------------------------------------------

\* The position in the log of the first failed step of a stage (0: none).
FirstStageFailure(t) ==
  IF Failed(t, StageOps)
  THEN CHOOSE i \in 1..Len(log[t]) :
         /\ log[t][i].op \in StageOps /\ ~log[t][i].ok
         /\ \A j \in 1..(i - 1) : ~(log[t][j].op \in StageOps /\ ~log[t][j].ok)
  ELSE 0

\* C3: a failure of any stage aborts all remaining stages (nothing is called
\* after the failed step), makes RepoBuilder report an error and is persisted
\* as State = ERROR.
C3_StageFailureAborts ==
  \A t \in Tasks :
    Failed(t, StageOps) =>
      /\ Len(log[t]) = FirstStageFailure(t)
      /\ pc[t] = "done" => (result[t] = "err" /\ Persisted(t) = "ERROR")

\* ---------------------------------------------------------------------
\* C4
\* ---------------------------------------------------------------------

\* Every external call task t has made succeeded.
AllOk(t) == \A i \in 1..Len(log[t]) : log[t][i].ok

\* The calls of DownloadExtractVersionRepo and RepoPullLocalStaticDeltas
\* task t has made, in order.
Calls(t) == Events(t, {"materialize", "merge"})

\* What the contract asks of a record with the old commits `old`: the update
\* commit into the working directory, then per old commit, in input order,
\* its materialization under staging/<hash> and right after it its merge
\* from there into <work>/repo.
ExpectedCalls(id, update, old) ==
  [k \in 1..(2 * Len(old) + 1) |->
     IF k = 1
     THEN Ev("materialize", <<"tmp", "update", ToString(id)>>, <<update>>, TRUE)
     ELSE IF k % 2 = 0
     THEN Ev("materialize", <<"tmp", "update", ToString(id), "staging", old[k \div 2]>>,
             <<old[k \div 2]>>, TRUE)
     ELSE Ev("merge", <<"tmp", "update", ToString(id), "repo">>,
             <<"tmp", "update", ToString(id), "staging", old[(k - 1) \div 2], "repo">>, TRUE)]

\* C4: for a record with N >= 1 old commits whose stages all succeed, the
\* merge-and-delta operation is invoked exactly N times, once per old commit
\* in the order of OldCommits, each time right after that commit has been
\* materialized under staging/<its hash>, with <work>/repo as the target.
C4_MergePerOldCommitInOrder ==
  \A t \in Started :
    (AllOk(t) /\ Len(ur[t].OldCommits) >= 1) =>
      LET want == ExpectedCalls(ur[t].ID, ur[t].UpdateCommit, ur[t].OldCommits)
      IN  /\ Len(Calls(t)) <= Len(want)
          /\ \A k \in 1..Len(Calls(t)) : Calls(t)[k] = want[k]
          /\ pc[t] = "done" => Len(Events(t, {"merge"})) = Len(ur[t].OldCommits)

\* A build of two different old commits has returned, every call a success.
C4_Witness ==
  \E t \in Started :
    /\ pc[t] = "done" /\ AllOk(t)
    /\ ur[t].OldCommits = <<"c2", "c1">>
    /\ Len(Events(t, {"merge"})) = 2

\* ---------------------------------------------------------------------
\* C5
\* ---------------------------------------------------------------------

\* C5: for a record without old commits RepoBuilder never invokes the merge
\* (nor any of its steps) and materializes nothing but UpdateCommit, once,
\* into the working directory.
C5_NoOldCommitsNoMerge ==
  \A t \in Started :
    Len(ur[t].OldCommits) = 0 =>
      /\ Events(t, MergeOps) = <<>>
      /\ Len(Events(t, {"materialize"})) <= 1
      /\ \A i \in 1..Len(log[t]) :
           /\ log[t][i].op = "materialize" =>
                (log[t][i].q = <<ur[t].UpdateCommit>> /\ log[t][i].p = WorkPath(ur[t].ID))
           /\ log[t][i].op \in {"download", "untar"} => log[t][i].q = <<ur[t].UpdateCommit>>
      /\ Events(t, {"upload"}) # <<>> => Len(Events(t, {"materialize"})) = 1

\* A build without old commits has reached its upload.
C5_Witness ==
  \E t \in Started :
    /\ Len(ur[t].OldCommits) = 0
    /\ pc[t] = "done"
    /\ Events(t, {"upload"}) # <<>>

\* ---------------------------------------------------------------------
\* C6
\* ---------------------------------------------------------------------

\* C6: if the download of a commit's tarball fails, Upload is never invoked
\* for that build and the record ends in State = ERROR.
C6_DownloadFailureNoUpload ==
  \A t \in Tasks :
    Failed(t, {"download"}) =>
      /\ Events(t, {"upload"}) = <<>>
      /\ pc[t] = "done" => Persisted(t) = "ERROR"

\* ---------------------------------------------------------------------
\* C7
\* ---------------------------------------------------------------------

\* C7: if persisting the initial BUILDING transition fails, RepoBuilder does
\* no filesystem or network work: nothing is called after the failed write.
C7_PersistFailureAbortsFirst ==
  \A t \in Tasks :
    (Len(log[t]) >= 1 /\ log[t][1].op = "persist" /\ ~log[t][1].ok) => Len(log[t]) = 1

\* ---------------------------------------------------------------------
\* C8
\* ---------------------------------------------------------------------

\* The tasks started so far build records with different identifiers.
DistinctRecords == \A t, s \in Started : t # s => ur[t].ID # ur[s].ID

\* C8: when the tasks build different records, each task's metadata commit,
\* merge and delta operate only on repositories under the working directory
\* of its own record.
C8_BuildsIndependent ==
  DistinctRecords =>
    \A t \in Started : \A i \in 1..Len(log[t]) :
      (log[t][i].op \in {"commit", "pull-local", "static-delta"} /\ log[t][i].ok)
         => IsPrefix(WorkPath(ur[t].ID), log[t][i].p)

\* ---------------------------------------------------------------------
\* C9
\* ---------------------------------------------------------------------

C10_AddReturnsCreatedRecord ==
  \A t \in Started :
    /\ response[t].status = 200
    /\ response[t].body.ID = ur[t].ID
    /\ response[t].body.UpdateCommit = ur[t].UpdateCommit

\* ---------------------------------------------------------------------
\* C11
\* ---------------------------------------------------------------------

\* C11: a record is never visible or modifiable across accounts: what
\* read-by-id and list return to an account is owned by it, and no Add or
\* Update changes the account that owns an existing record.
C11_AccountIsolation ==
  [][/\ \A a \in Accounts, id \in Tasks :
          GetByID(db, a, id) # NoRecord => RecordAccount(GetByID(db, a, id)) = a
     /\ \A a \in Accounts : \A rec \in GetAll(db, a) : RecordAccount(rec) = a
     /\ \A id \in Tasks :
          db[id].ID # 0 => RecordAccount(db'[id]) = RecordAccount(db[id])]_vars

\* ---------------------------------------------------------------------
\* C12
\* ---------------------------------------------------------------------

\* C12: the storage proxy maps the request path <api-prefix>/<name>/<path>
\* of an account to the key <account>/<name>/<path>: the name segment and
\* the path in the repository are kept, only the API prefix is replaced.
C12_KeyKeepsNameAndPath ==
  (proxy.server = "S3Proxy" /\ proxy.status # 400) =>
     proxy.resolved = <<proxy.account>> \o Slash \o proxy.name \o Slash \o proxy.rest

\* ---------------------------------------------------------------------
\* C20
\* ---------------------------------------------------------------------

\* C20: for every request path and repository name the prefix
\* getNameAndPrefix returns is the path up to and including the route's name
\* segment, so that what is left is the path inside the repository, also
\* when the name's text occurs earlier in the path; the file server and the
\* storage proxy resolve the same path in the repository.
C20_PrefixEndsAtNameSegment ==
  (proxy.server # "none" /\ proxy.status # 400) =>
     /\ proxy.prefix = Slash \o proxy.api \o Slash \o proxy.name
     /\ proxy.rel = Slash \o proxy.rest
     /\ S3Rel(proxy.path, proxy.name) = FileRel(proxy.path, proxy.name)

\* ---------------------------------------------------------------------
\* C13
\* ---------------------------------------------------------------------

PullOps == {"pull-local", "static-delta"}

\* C13: in RepoPullLocalStaticDeltas a ref that fails to resolve ends the
\* operation: no rev-parse, pull-local or static-delta generate follows the
\* failed rev-parse, and no pull or delta is run with an empty revision.
C13_UnresolvedRefAbortsMerge ==
  \A t \in Tasks : \A i \in 1..Len(log[t]) :
     /\ log[t][i].op \in PullOps =>
          \A k \in 1..Len(log[t][i].q) : log[t][i].q[k] # ""
     /\ (log[t][i].op = "rev-parse" /\ ~log[t][i].ok /\ i < Len(log[t])) =>
          log[t][i + 1].op \notin PullOps \cup {"rev-parse"}

\* ---------------------------------------------------------------------
\* C14
\* ---------------------------------------------------------------------

\* C14: a static delta is generated only right after a successful pull-local
\* of the same merge, from the resolved old revision that was pulled to the
\* resolved revision of the update commit's ref; a successful pull is
\* followed by its delta and by nothing else.
C14_PullThenDelta ==
  \A t \in Tasks : \A i \in 1..Len(log[t]) :
     /\ log[t][i].op = "static-delta" =>
          /\ i > 1
          /\ log[t][i - 1].op = "pull-local" /\ log[t][i - 1].ok
          /\ log[t][i - 1].p = log[t][i].p
          /\ log[t][i].q[1] = log[t][i - 1].q[1]
          /\ \E c \in OldCommitPool : log[t][i].q[1] = Rev(c)
          /\ log[t][i].q[2] = Rev(ur[t].UpdateCommit)
     /\ (log[t][i].op = "pull-local" /\ log[t][i].ok /\ i < Len(log[t])) =>
          log[t][i + 1].op = "static-delta"

\* ---------------------------------------------------------------------
\* C15
\* ---------------------------------------------------------------------

\* The steps of one materialization, in the order of the claim.
MaterializeOrder ==
  <<"materialize", "chdir-dest", "download", "open", "untar", "remove", "commit">>

StepNo(op) == CHOOSE k \in 1..Len(MaterializeOrder) : MaterializeOrder[k] = op

\* C15: the steps of DownloadExtractVersionRepo run in the fixed order, a
\* step that fails (extraction included) is the last step of its
\* materialization, and after a successful metadata commit the archive is
\* gone from the destination.
C15_MaterializeStepsInOrder ==
  \A t \in Tasks : \A i \in 1..Len(log[t]) :
     LET e == log[t][i] IN
     e.op \in MaterializeOps =>
       /\ (i < Len(log[t]) /\ e.ok /\ e.op # "commit") =>
             /\ log[t][i + 1].op \in MaterializeOps
             /\ StepNo(log[t][i + 1].op) = StepNo(e.op) + 1
       /\ (i < Len(log[t]) /\ ~e.ok) =>
             log[t][i + 1].op \notin MaterializeOps \ {"materialize"}
       /\ (i = Len(log[t]) /\ e.ok /\ e.op = "commit") =>
             TarPath(t) \notin files

\* ---------------------------------------------------------------------
\* C16
\* ---------------------------------------------------------------------

\* C16: when the Uploader is handed <work>/repo, the update commit and every
\* old commit have been materialized and merged (every such step made, in
\* order, and a success), the call before the upload is the successful
\* removal of the staging directory, which no longer exists, and the run
\* has made no other upload.
C16_UploadAfterAllStages ==
  \A t \in Tasks : \A i \in 1..Len(log[t]) :
     log[t][i].op = "upload" =>
       /\ i = Len(log[t])
       /\ \A j \in 1..(i - 1) : log[t][j].op # "upload"
       /\ log[t][i].p = Join(WorkPath(ur[t].ID), <<"repo">>)
       /\ i > 1 /\ log[t][i - 1].op = "remove-all" /\ log[t][i - 1].ok
       /\ StagePath(ur[t].ID) \notin dirs
       /\ Calls(t) = ExpectedCalls(ur[t].ID, ur[t].UpdateCommit, ur[t].OldCommits)
       /\ \A j \in 1..(i - 1) :
             log[t][j].op \in MaterializeOps \cup MergeOps => log[t][j].ok

\* ---------------------------------------------------------------------
\* C17
\* ---------------------------------------------------------------------

\* C17: a run whose materialize and merge steps all succeeded and whose
\* removal of the staging directory failed still uploads: once it has
\* returned it has called the Uploader, it has not returned the error or
\* persisted ERROR, and with a successful upload the record is SUCCESS.
C17_CleanupFailureNotFatal ==
  \A t \in Tasks :
    (/\ pc[t] = "done"
     /\ Failed(t, {"remove-all"})
     /\ ~Failed(t, MaterializeOps \cup MergeOps)) =>
       /\ Len(Events(t, {"upload"})) = 1
       /\ result[t] # "err"
       /\ Persisted(t) # "ERROR"
       /\ ~Failed(t, {"upload"}) => Persisted(t) = "SUCCESS"

\* ---------------------------------------------------------------------
\* C18
\* ---------------------------------------------------------------------

\* C18: the staging directory is removed only on the path where every
\* earlier stage succeeded: once a materialize or merge step of an old
\* commit has failed (staging having been made), no os.RemoveAll(stagePath)
\* is run, and the run returns with the staging directory in place.
C18_FailureKeepsStaging ==
  \A t \in Tasks :
    (\E j \in 1..Len(log[t]) : \E i \in (j + 1)..Len(log[t]) :
        /\ log[t][j] = Ev("mkdir", StagePath(ur[t].ID), NoPath, TRUE)
        /\ log[t][i].op \in MaterializeOps \cup MergeOps /\ ~log[t][i].ok) =>
       /\ Len(Events(t, {"remove-all"})) = 0
       /\ pc[t] = "done" => StagePath(ur[t].ID) \in dirs

\* ---------------------------------------------------------------------
\* C19
\* ---------------------------------------------------------------------

\* The last event of task t's log after the step is the new event e.
Did(t, e) == Len(log'[t]) = Len(log[t]) + 1 /\ log'[t][Len(log'[t])] = e

\* The steps of a build between the making of an old commit's directory
\* under staging and the end of its merge.
InStaging == {"dl_chdir", "dl_get", "dl_open", "dl_untar", "dl_remove", "dl_commit",
              "pl_chdir", "pl_rev_u", "pl_rev_o", "pl_pull", "pl_delta"}

\* C19: two RepoBuilder tasks of the same record are not kept apart: the
\* directories either makes, removes or uploads are the work, staging and
\* repo paths of the other; the removal of staging by one deletes what the
\* other has under staging whatever the other is doing; and a write of the
\* record by one replaces the row of the other (the last writer wins).
C19_SameRecordTasksShare ==
  [][\A t \in Started : \A u \in Started \ {t} :
        ur[t].ID = ur[u].ID =>
          /\ \A i \in 1..Len(log[t]) :
                log[t][i].op \in {"mkdir", "remove-all", "upload"} =>
                  log[t][i].p \in {WorkPath(ur[u].ID), StagePath(ur[u].ID), UpRepo(u)}
          /\ Did(t, Ev("remove-all", StagePath(ur[t].ID), NoPath, TRUE)) =>
                \A d \in dirs' \cup files' : ~IsPrefix(StagePath(ur[u].ID), d)
          /\ Did(t, Ev("persist", <<"BUILDING">>, NoPath, TRUE)) =>
                db'[ur[u].ID] = ur'[t]]_vars

\* Task t has just removed the staging directory of the record while task u
\* of the same record is between materializing and merging an old commit
\* whose directory it had made there, and the row is the record of t, not
\* the one u builds.
C19_Witness ==
  \E t \in Started : \E u \in Started \ {t} :
    /\ ur[t].ID = ur[u].ID
    /\ pc[t] = "rb_upload"
    /\ pc[u] \in InStaging /\ idx[u] >= 1
    /\ Ev("materialize", Dest(u), <<CurCommit(u)>>, TRUE) \in {log[u][i] : i \in 1..Len(log[u])}
    /\ Dest(u) \notin dirs
    /\ db[ur[u].ID] = ur[t] /\ ur[t] # ur[u]

====
